---- MODULE Spec2Model ----
(***************************************************************************)
(* A model of CineHub (kmce2019/cinehub): the SQLite rating store of       *)
(* app/db.py, the recommendation filter of app/services/recommender.py,    *)
(* the Jellyfin endpoint selection of app/services/jellyfin.py, the        *)
(* provider link resolver of app/services/provider.py, the home, title     *)
(* detail and request routes of app/main.py and the request client of      *)
(* app/services/jellyseerr.py.                                             *)
(***************************************************************************)
EXTENDS Integers, Sequences, FiniteSets, TLC

VARIABLES
    ratings,    \* the committed rows of table `ratings` (db.py:28-34)
    clock,      \* SQLite's CURRENT_TIMESTAMP
    lastStars,  \* history: (source, key) -> stars argument of the latest upsert_rating
    lastOp,     \* the latest completed call of the rating store and its result
    lock,       \* the connection holding SQLite's write lock, or NoOne
    pc,         \* concurrent clients: position of each in its call
    frame,      \* concurrent clients: locals of the call in progress
    committed,  \* history: (source, key) -> stars argument of the latest commit
    observed,   \* history: the latest get_rating result seen by a concurrent client
    trending,   \* upstream TMDB: the "results" of /trending/all/week
    library,    \* upstream Jellyfin: the tmdb ids the library holds
    limit,      \* recommend_download: the limit argument
    rpc,        \* recommend_download: position ("idle", "fetch", "loop", "done", "raised")
    candidates, \* recommend_download: local candidates
    idx,        \* recommend_download: index of the loop's next item
    suggestions,\* recommend_download: local suggestions
    checks,     \* history: indices of the candidates is_in_library was called for
    jellyfin,   \* the JellyfinClient object: its attributes
    lanUp,      \* network: the LAN address answers a HEAD request within 0.5 s
    jfCall,     \* the latest call on the JellyfinClient and its outcome
    ytKey,      \* environment: YOUTUBE_DATA_API_KEY
    ytResponse, \* upstream video search: what a request comes to
    linkArgs,   \* resolve_provider_link: its arguments
    linkResult, \* resolve_provider_link: what the call came to
    searchLog,  \* history: the queries sent to the video-search endpoint
    hpc,        \* home: position in the route
    rows,       \* home: the row lists assigned so far, by local name
    upstream,   \* history: what the upstream call behind each row came to
    response,   \* home: what the route answered
    dpc,        \* title_detail: position in the route
    detailArgs, \* title_detail: kind, item_id and media_type of the request
    detailLocals, \* title_detail: the locals assigned so far, by name
    detailFailed, \* history: the upstream calls of the request that failed
    detailResponse, \* title_detail: what the route answered
    jellyseerr, \* the JellyseerrClient object: its attributes
    reqArgs,    \* request_item: media_type and tmdb_id of the form
    reqUpstream,\* upstream Jellyseerr: what the POST comes to
    reqResult   \* request_item: what the route came to

storeVars == <<ratings, clock, lastStars, lastOp>>
concVars == <<lock, pc, frame, committed, observed>>
recoVars == <<trending, library, limit, rpc, candidates, idx, suggestions, checks>>
jfVars == <<jellyfin, lanUp, jfCall>>
linkVars == <<ytKey, ytResponse, linkArgs, linkResult, searchLog>>
homeVars == <<hpc, rows, upstream, response>>
detailVars == <<dpc, detailArgs, detailLocals, detailFailed, detailResponse>>
reqVars == <<jellyseerr, reqArgs, reqUpstream, reqResult>>
vars == <<ratings, clock, lastStars, lastOp, lock, pc, frame, committed, observed,
          trending, library, limit, rpc, candidates, idx, suggestions, checks,
          jellyfin, lanUp, jfCall, ytKey, ytResponse, linkArgs, linkResult, searchLog,
          hpc, rows, upstream, response,
          dpc, detailArgs, detailLocals, detailFailed, detailResponse,
          jellyseerr, reqArgs, reqUpstream, reqResult>>

\* what the steps of each part leave unchanged
outsideStore == <<concVars, recoVars, jfVars, linkVars, homeVars, detailVars, reqVars>>
outsideConc ==
    <<lastStars, lastOp, recoVars, jfVars, linkVars, homeVars, detailVars, reqVars>>
outsideReco == <<storeVars, concVars, jfVars, linkVars, homeVars, detailVars, reqVars>>
outsideJf == <<storeVars, concVars, recoVars, linkVars, homeVars, detailVars, reqVars>>
outsideLink == <<storeVars, concVars, recoVars, jfVars, homeVars, detailVars, reqVars>>
outsideHome == <<storeVars, concVars, jfVars, linkVars, detailVars, reqVars>>
outsideDetail == <<storeVars, concVars, recoVars, jfVars, homeVars, reqVars>>
outsideReq == <<storeVars, concVars, recoVars, jfVars, linkVars, homeVars, detailVars>>

(***************************************************************************)
(* Values                                                                  *)
(***************************************************************************)
\* an optional value is a sequence of at most one element: None is Python's None
None == <<>>
Some(x) == <<x>>
\* no connection holds the write lock
NoOne == 0

\* ratings are stored per source and key (db.py:5)
Sources == {"jellyfin", "tmdb"}
Keys == {"movie:1"}
RatingKeys == Sources \X Keys

\* stars arguments range over (1 - MaxExcess) .. (5 + MaxExcess)
MaxExcess == 2
\* the timestamps CURRENT_TIMESTAMP takes
MaxClock == 2

StarsLow == 1
StarsHigh == 5
StarsInputs == (StarsLow - MaxExcess) .. (StarsHigh + MaxExcess)

(***************************************************************************)
(* The parts of the application at rest: each specification below moves    *)
(* one part and leaves the others as they are here.                        *)
(***************************************************************************)
\* the state main.py leaves after init_db() on a fresh data directory
StoreIdle ==
    /\ ratings = {}
    /\ clock = 0
    /\ lastStars = [sk \in RatingKeys |-> None]
    /\ lastOp = [op |-> "init_db"]

\* no concurrent request is using the rating store
ConcIdle ==
    /\ lock = NoOne
    /\ pc = <<>>
    /\ frame = <<>>
    /\ committed = <<>>
    /\ observed = None

\* no recommendation is being computed
RecoIdle ==
    /\ trending = <<>>
    /\ library = {}
    /\ limit = 0
    /\ rpc = "idle"
    /\ candidates = <<>>
    /\ idx = 0
    /\ suggestions = <<>>
    /\ checks = <<>>

\* the addresses JELLYFIN_LAN_URL and JELLYFIN_WAN_URL are set to
Addresses == {"http://192.168.1.10:8096", "https://jellyfin.example.org"}

\* JellyfinClient.__init__ (jellyfin.py:19-27)
JellyfinClient(lan_url, wan_url, api_key, user_id) ==
    [lan_url |-> lan_url, wan_url |-> wan_url, api_key |-> api_key, user_id |-> user_id]

\* jellyfin = JellyfinClient.from_env() (main.py:39), no call made yet
JfIdle ==
    /\ jellyfin = JellyfinClient("http://192.168.1.10:8096",
                                 "https://jellyfin.example.org", "key", "user")
    /\ lanUp = TRUE
    /\ jfCall = None

\* no provider link is being resolved
LinkIdle ==
    /\ ytKey = None
    /\ ytResponse = None
    /\ linkArgs = None
    /\ linkResult = None
    /\ searchLog = <<>>

\* no request for the home page is being served
HomeIdle ==
    /\ hpc = "idle"
    /\ rows = <<>>
    /\ upstream = <<>>
    /\ response = None

\* no request for a title page is being served
DetailIdle ==
    /\ dpc = "idle"
    /\ detailArgs = None
    /\ detailLocals = <<>>
    /\ detailFailed = {}
    /\ detailResponse = None

\* JellyseerrClient.__init__ (jellyseerr.py:17-24)
JellyseerrClient(base_url, api_key, user_id) ==
    [base |-> base_url, api_key |-> api_key, user_id |-> user_id]

\* jellyseerr = JellyseerrClient.from_env() (main.py:41), no request submitted
ReqIdle ==
    /\ jellyseerr = JellyseerrClient("http://localhost:5055", "", None)
    /\ reqArgs = None
    /\ reqUpstream = None
    /\ reqResult = None

(***************************************************************************)
(* app/db.py                                                               *)
(***************************************************************************)
Min(a, b) == IF a < b THEN a ELSE b
Max(a, b) == IF a > b THEN a ELSE b

\* a clamp that bounds only from above
ClampHighOnly(stars) == Min(StarsHigh, stars)

\* stars = max(1, min(5, int(stars)))
Clamp(stars) == Max(StarsLow, Min(StarsHigh, stars))

Row(source, key, stars, now) ==
    [source |-> source, key |-> key, stars |-> stars, updated_at |-> now]

Matches(r, source, key) == r.source = source /\ r.key = key

\* a plain INSERT into a table without the primary key
InsertNoConflict(db, source, key, stars, now) ==
    db \cup {Row(source, key, stars, now)}

\* INSERT ... ON CONFLICT(source, key) DO UPDATE SET stars, updated_at
InsertOnConflictUpdate(db, source, key, stars, now) ==
    IF \E r \in db : Matches(r, source, key)
    THEN {IF Matches(r, source, key)
          THEN [r EXCEPT !.stars = stars, !.updated_at = now]
          ELSE r : r \in db}
    ELSE db \cup {Row(source, key, stars, now)}

\* SELECT stars FROM ratings WHERE source=? AND key=?; fetchone()
SelectStars(db, source, key) ==
    LET found == {r \in db : Matches(r, source, key)}
    IN  IF found = {} THEN None ELSE Some((CHOOSE r \in found : TRUE).stars)

\* DROP TABLE followed by CREATE TABLE
CreateTableAfterDrop(db) == {}

\* CREATE TABLE IF NOT EXISTS ratings (...)
CreateTableIfNotExists(db) == db

init_db ==
    /\ ratings' = CreateTableIfNotExists(ratings)
    /\ lastOp' = [op |-> "init_db"]
    /\ UNCHANGED <<clock, lastStars>>

upsert_rating(source, key, stars) ==
    /\ ratings' = InsertOnConflictUpdate(ratings, source, key, Clamp(stars), clock)
    /\ lastStars' = [lastStars EXCEPT ![<<source, key>>] = Some(stars)]
    /\ lastOp' = [op |-> "upsert_rating", source |-> source, key |-> key,
                  stars |-> stars,
                  replaced |-> \E r \in ratings : Matches(r, source, key)]
    /\ UNCHANGED clock

get_rating(source, key) ==
    /\ lastOp' = [op |-> "get_rating", source |-> source, key |-> key,
                  result |-> SelectStars(ratings, source, key),
                  rated |-> lastStars[<<source, key>>] # None]
    /\ UNCHANGED <<ratings, clock, lastStars>>

\* time passes between calls
Tick ==
    /\ clock < MaxClock
    /\ clock' = clock + 1
    /\ UNCHANGED <<ratings, lastStars, lastOp>>

\* the application has started (main.py:36-42) and no request is being served
InitStore ==
    /\ StoreIdle
    /\ ConcIdle
    /\ RecoIdle
    /\ JfIdle
    /\ LinkIdle
    /\ HomeIdle
    /\ DetailIdle
    /\ ReqIdle

NextStore ==
    \/ init_db /\ UNCHANGED outsideStore
    \/ \E sk \in RatingKeys, stars \in StarsInputs :
           upsert_rating(sk[1], sk[2], stars) /\ UNCHANGED outsideStore
    \/ \E sk \in RatingKeys :
           get_rating(sk[1], sk[2]) /\ UNCHANGED outsideStore
    \/ Tick /\ UNCHANGED outsideStore

SpecStore == InitStore /\ [][NextStore]_vars

(***************************************************************************)
(* The rating store: claims                                                *)
(***************************************************************************)
RowsOf(sk) == {r \in ratings : Matches(r, sk[1], sk[2])}

\* C1: after any sequence of upsert_rating calls with arbitrary integer stars
\* (0, negative, above 5), every stored row has stars in 1..5.
C1_StoredStarsInRange == \A r \in ratings : r.stars \in 1..5

\* an upsert with stars below 1 and one with stars above 5 have both been stored
C1_Witness ==
    /\ lastOp.op = "upsert_rating"
    /\ lastOp.stars < 1
    /\ \E sk \in RatingKeys : lastStars[sk] # None /\ lastStars[sk][1] > 5
    /\ \A sk \in RatingKeys : RowsOf(sk) # {}

\* C2: the store holds exactly one row for each (source, key) ever upserted
\* and none for the others; the stored stars, and what get_rating returns,
\* are clamp(x, 1, 5) for x the stars of the most recent upsert_rating on that
\* very (source, key).
C2_LatestUpsertWins ==
    /\ \A sk \in RatingKeys :
           /\ Cardinality(RowsOf(sk)) = IF lastStars[sk] = None THEN 0 ELSE 1
           /\ lastStars[sk] # None =>
                  SelectStars(ratings, sk[1], sk[2]) = Some(Clamp(lastStars[sk][1]))
    /\ (lastOp.op = "get_rating" /\ lastOp.rated) =>
           lastOp.result = Some(Clamp(lastStars[<<lastOp.source, lastOp.key>>][1]))

\* an upsert has replaced an existing row with out-of-range stars while the
\* other key holds a different rating
C2_Witness ==
    /\ lastOp.op = "upsert_rating"
    /\ lastOp.replaced
    /\ lastOp.stars > 5
    /\ \E sk \in RatingKeys :
           /\ sk # <<lastOp.source, lastOp.key>>
           /\ SelectStars(ratings, sk[1], sk[2]) = Some(2)

\* C3: get_rating returns None exactly for the keys no upsert_rating has
\* completed on, and a key that has a rating keeps one through every later
\* upsert_rating, get_rating and init_db.
C3_NoneIffNeverRated ==
    /\ [](/\ \A sk \in RatingKeys :
                 (SelectStars(ratings, sk[1], sk[2]) = None) <=> (lastStars[sk] = None)
          /\ lastOp.op = "get_rating" => ((lastOp.result = None) <=> ~lastOp.rated))
    /\ [][\A sk \in RatingKeys :
              SelectStars(ratings, sk[1], sk[2]) # None =>
                  SelectStars(ratings', sk[1], sk[2]) # None]_vars

\* init_db has run again on a store that holds a rating
C3_Witness ==
    /\ lastOp.op = "init_db"
    /\ \E sk \in RatingKeys : RowsOf(sk) # {} /\ lastStars[sk] # None
    /\ \E sk \in RatingKeys : RowsOf(sk) = {}

(***************************************************************************)
(* app/db.py under concurrent requests: every call opens its own           *)
(* connection (db.py:48, db.py:67); SQLite lets one connection at a time   *)
(* hold the write lock, from the INSERT of line 50 to the commit of line   *)
(* 57, and readers see the committed rows only.                            *)
(***************************************************************************)
\* the number of concurrent clients
NumClients == 2
Clients == 1 .. NumClients
\* the stars concurrent writers submit: below the range, inside it, above it
ConcStarsInputs == {StarsLow - MaxExcess, 3, StarsHigh + MaxExcess}

\* the statement is split into a committed DELETE and an INSERT
ExecuteDeleteFirst(db, source, key, stars, now) ==
    [visible |-> {r \in db : ~Matches(r, source, key)},
     tx |-> InsertOnConflictUpdate(db, source, key, stars, now)]

\* cur.execute(INSERT ... ON CONFLICT ...) inside the connection's implicit
\* transaction: the change stays private to the connection until the commit
ExecuteInTransaction(db, source, key, stars, now) ==
    [visible |-> db,
     tx |-> InsertOnConflictUpdate(db, source, key, stars, now)]

\* upsert_rating, line 47: the argument is clamped before the connection opens
UpsertBegin(c, source, key, stars) ==
    /\ pc[c] = "idle"
    /\ pc' = [pc EXCEPT ![c] = "connect"]
    /\ frame' = [frame EXCEPT ![c] = [source |-> source, key |-> key,
                                      arg |-> stars, stars |-> Clamp(stars),
                                      tx |-> {}]]
    /\ UNCHANGED <<ratings, clock, lock, committed, observed>>

\* upsert_rating, lines 48-56: the INSERT takes the write lock
UpsertExecute(c) ==
    /\ pc[c] = "connect"
    /\ lock = NoOne
    /\ LET f == frame[c]
           e == ExecuteInTransaction(ratings, f.source, f.key, f.stars, clock)
       IN  /\ ratings' = e.visible
           /\ frame' = [frame EXCEPT ![c].tx = e.tx]
    /\ lock' = c
    /\ pc' = [pc EXCEPT ![c] = "commit"]
    /\ UNCHANGED <<clock, committed, observed>>

\* upsert_rating, lines 50-56: another connection keeps the write lock past
\* the busy timeout; execute raises sqlite3.OperationalError and the call
\* ends without a write
UpsertBusy(c) ==
    /\ pc[c] = "connect"
    /\ lock \notin {NoOne, c}
    /\ pc' = [pc EXCEPT ![c] = "idle"]
    /\ frame' = [frame EXCEPT ![c] = <<>>]
    /\ UNCHANGED <<ratings, clock, lock, committed, observed>>

\* upsert_rating, line 57: con.commit()
UpsertCommit(c) ==
    /\ pc[c] = "commit"
    /\ ratings' = frame[c].tx
    /\ lock' = NoOne
    /\ committed' = [committed EXCEPT ![<<frame[c].source, frame[c].key>>] =
                         Some(frame[c].arg)]
    /\ pc' = [pc EXCEPT ![c] = "idle"]
    /\ frame' = [frame EXCEPT ![c] = <<>>]
    /\ UNCHANGED <<clock, observed>>

\* get_rating, lines 67-73: one SELECT on a connection of its own
GetRating(c, source, key) ==
    /\ pc[c] = "idle"
    /\ observed' = Some([source |-> source, key |-> key,
                     result |-> SelectStars(ratings, source, key),
                     latest |-> committed[<<source, key>>]])
    /\ UNCHANGED <<ratings, lock, pc, frame, committed>>
    /\ UNCHANGED clock

InitConc ==
    /\ StoreIdle
    /\ lock = NoOne
    /\ pc = [c \in Clients |-> "idle"]
    /\ frame = [c \in Clients |-> <<>>]
    /\ committed = [sk \in RatingKeys |-> None]
    /\ observed = None
    /\ RecoIdle
    /\ JfIdle
    /\ LinkIdle
    /\ HomeIdle
    /\ DetailIdle
    /\ ReqIdle

NextConc ==
    \/ \E c \in Clients, sk \in RatingKeys, stars \in ConcStarsInputs :
           UpsertBegin(c, sk[1], sk[2], stars) /\ UNCHANGED outsideConc
    \/ \E c \in Clients : UpsertExecute(c) /\ UNCHANGED outsideConc
    \/ \E c \in Clients : UpsertBusy(c) /\ UNCHANGED outsideConc
    \/ \E c \in Clients : UpsertCommit(c) /\ UNCHANGED outsideConc
    \/ \E c \in Clients, sk \in RatingKeys :
           GetRating(c, sk[1], sk[2]) /\ UNCHANGED outsideConc

SpecConc == InitConc /\ [][NextConc]_vars

\* C4: with upsert_rating calls on one (source, key) interleaved with each
\* other and with get_rating, every get_rating returns None (only while
\* nothing has been committed for the key) or the clamped stars of a
\* writer, namely of the latest to commit; the store never holds two rows
\* for a key; and whenever no write is in flight the stored value is the
\* clamped stars of the writer that committed last.
C4_AtomicLastWriterWins ==
    /\ \A sk \in RatingKeys :
           /\ Cardinality(RowsOf(sk)) <= 1
           /\ SelectStars(ratings, sk[1], sk[2]) =
                  IF committed[sk] = None THEN None
                  ELSE Some(Clamp(committed[sk][1]))
    /\ observed # None =>
           observed[1].result =
               IF observed[1].latest = None THEN None
               ELSE Some(Clamp(observed[1].latest[1]))

\* two writers are in flight on the same key with different stars, one holds
\* the write lock, a rating is already committed and a reader has seen it
C4_Witness ==
    /\ \E c, d \in Clients :
           /\ c # d
           /\ pc[c] = "commit"
           /\ pc[d] = "connect"
           /\ frame[c].source = frame[d].source
           /\ frame[c].key = frame[d].key
           /\ frame[c].stars # frame[d].stars
           /\ committed[<<frame[c].source, frame[c].key>>] # None
           /\ observed # None
           /\ observed[1].source = frame[c].source
           /\ observed[1].result # None
           /\ observed[1].result # Some(frame[c].stars)

(***************************************************************************)
(* app/services/recommender.py, with tmdb.get_trending (tmdb.py:42-44)     *)
(* and jellyfin.is_in_library (jellyfin.py:69-74)                          *)
(***************************************************************************)
\* the longest trending list the upstream returns
MaxCandidates == 3
\* the largest limit argument
MaxLimit == 3
\* the tmdb ids of the upstream catalogue
MaxId == 3
\* get_trending(limit=100)
TrendingLimit == 100

Item(id, media_type, name) == [id |-> id, media_type |-> media_type, name |-> name]

\* trending items: with and without "id", "media_type" and "name"
CatalogItems ==
    {Item(Some(i), Some("movie"), None) : i \in 1 .. MaxId}
        \cup {Item(Some(1), None, Some("Show")), Item(None, Some("tv"), Some("Show"))}

SeqsUpTo(S, n) == UNION {[1 .. k -> S] : k \in 0 .. n}

\* seq[:n]
Take(seq, n) == SubSeq(seq, 1, Min(Len(seq), Max(n, 0)))

\* Python truthiness of an optional string
Truthy(opt) == opt # None /\ opt[1] # ""

\* item.get("media_type") or ("tv" if item.get("name") else "movie")
MediaTypeOf(item) ==
    IF Truthy(item.media_type) THEN item.media_type[1]
    ELSE IF Truthy(item.name) THEN "tv" ELSE "movie"

\* jellyfin.is_in_library: bool(data.get("TotalRecordCount")) of the search by
\* provider id tmdb.<id>; the media type is not part of the query
is_in_library(lib, tmdb_id, media_type) ==
    LET TotalRecordCount == IF tmdb_id \in lib THEN 1 ELSE 0
    IN  TotalRecordCount # 0

\* recommender.py:40: len(suggestions) >= limit
LimitReached(n, lim) == n >= lim

\* recommender.py:30-31: candidates = self.tmdb.get_trending(limit=100)
RecoFetch ==
    /\ rpc = "fetch"
    /\ \/ /\ candidates' = Take(trending, TrendingLimit)
          /\ rpc' = "loop"
          /\ idx' = 1
       \/ \* tmdb._get raises (requests error, raise_for_status, json)
          /\ rpc' = "raised"
          /\ UNCHANGED <<candidates, idx>>
    /\ UNCHANGED <<trending, library, limit, suggestions, checks>>

\* recommender.py:32-41: one iteration of the loop, the break included
RecoStep ==
    /\ rpc = "loop"
    /\ idx <= Len(candidates)
    /\ LET item == candidates[idx]
           media_type == MediaTypeOf(item)
           tmdb_id == item.id
       IN  IF tmdb_id = None
           THEN /\ idx' = idx + 1
                /\ UNCHANGED <<rpc, suggestions, checks>>
           ELSE /\ checks' = Append(checks, idx)
                /\ \/ \* jellyfin._get raises inside is_in_library
                      /\ rpc' = "raised"
                      /\ UNCHANGED <<idx, suggestions>>
                   \/ IF is_in_library(library, tmdb_id[1], media_type)
                      THEN /\ idx' = idx + 1
                           /\ UNCHANGED <<rpc, suggestions>>
                      ELSE /\ suggestions' = Append(suggestions, item)
                           /\ IF LimitReached(Len(suggestions'), limit)
                              THEN rpc' = "done" /\ idx' = idx
                              ELSE rpc' = "loop" /\ idx' = idx + 1
    /\ UNCHANGED <<trending, library, limit, candidates>>

\* recommender.py:32, 42: the list is exhausted; return suggestions
RecoReturn ==
    /\ rpc = "loop"
    /\ idx > Len(candidates)
    /\ rpc' = "done"
    /\ UNCHANGED <<trending, library, limit, candidates, idx, suggestions, checks>>

\* a call of recommend_download(limit) against some upstream state
InitReco ==
    /\ StoreIdle
    /\ ConcIdle
    /\ JfIdle
    /\ LinkIdle
    /\ HomeIdle
    /\ DetailIdle
    /\ ReqIdle
    /\ trending \in SeqsUpTo(CatalogItems, MaxCandidates)
    /\ library \in SUBSET (1 .. MaxId)
    /\ limit \in 0 .. MaxLimit
    /\ rpc = "fetch"
    /\ candidates = <<>>
    /\ idx = 0
    /\ suggestions = <<>>
    /\ checks = <<>>

NextReco ==
    \/ RecoFetch /\ UNCHANGED outsideReco
    \/ RecoStep /\ UNCHANGED outsideReco
    \/ RecoReturn /\ UNCHANGED outsideReco

SpecReco == InitReco /\ [][NextReco]_vars

\* the candidates that have an id and are not in the library, in input order
RECURSIVE NotInLibrary(_, _)
NotInLibrary(seq, lib) ==
    IF seq = <<>> THEN <<>>
    ELSE LET item == Head(seq)
             rest == NotInLibrary(Tail(seq), lib)
         IN  IF item.id # None /\ ~is_in_library(lib, item.id[1], MediaTypeOf(item))
             THEN <<item>> \o rest
             ELSE rest

\* the indices of the candidates that have an id, among the first n
WithId(seq, n) == {i \in 1 .. Min(n, Len(seq)) : seq[i].id # None}

\* the indices of the accepted candidates
Accepted(seq, lib) ==
    {i \in 1 .. Len(seq) :
         seq[i].id # None /\ ~is_in_library(lib, seq[i].id[1], MediaTypeOf(seq[i]))}

\* the index of the n-th accepted candidate: 0 for n = 0
NthAccepted(seq, lib, n) ==
    IF n = 0 THEN 0
    ELSE CHOOSE i \in Accepted(seq, lib) :
             Cardinality({j \in Accepted(seq, lib) : j <= i}) = n

\* C5: recommend_download(limit) returns exactly the first `limit` of the
\* candidates not in the library, in input order, for every limit >= 0,
\* limit = 0 included.
C5_FirstLimitNotInLibrary ==
    rpc = "done" => suggestions = Take(NotInLibrary(candidates, library), limit)

\* C6: no membership check is issued once `limit` suggestions are collected:
\* the checks are those of the candidates with an id up to the limit-th
\* accepted candidate (of all candidates with an id when fewer than `limit`
\* are accepted), each once, in input order.
C6_ShortCircuit ==
    rpc = "done" =>
        LET last == IF Cardinality(Accepted(candidates, library)) >= limit
                    THEN NthAccepted(candidates, library, limit)
                    ELSE Len(candidates)
        IN  /\ Len(checks) = Cardinality(WithId(candidates, last))
            /\ \A i \in 1 .. Len(checks) : checks[i] \in WithId(candidates, last)
            /\ \A i, j \in 1 .. Len(checks) : i < j => checks[i] < checks[j]

(***************************************************************************)
(* app/services/jellyfin.py                                                *)
(***************************************************************************)
\* what an upstream HTTP request comes to: no answer, an error status, a body
\* that is not the expected JSON, or the expected answer
Outcomes == {"timeout", "status", "malformed", "ok"}
ItemIds == {"item1", "item2"}
SessionIds == {"s1"}

\* a client that remembers a failed probe: the WAN address replaces the LAN one
BaseRememberFallback(self, probe_ok) ==
    IF probe_ok
    THEN [self |-> self, url |-> self.lan_url]
    ELSE [self |-> [self EXCEPT !.lan_url = self.wan_url], url |-> self.wan_url]

\* JellyfinClient._base: requests.head(self.lan_url, timeout=0.5) returning
\* gives the LAN url, any exception the WAN url; self is left as it was
Base(self, probe_ok) ==
    IF probe_ok
    THEN [self |-> self, url |-> self.lan_url]
    ELSE [self |-> self, url |-> self.wan_url]

\* the previous call's probe result, for the history kept in jfCall
PrevProbe == IF jfCall = None THEN None ELSE Some(jfCall[1].probe)

\* JellyfinClient._base called on its own (main.py:82)
JfBase ==
    /\ LET b == Base(jellyfin, lanUp)
       IN  /\ jellyfin' = b.self
           /\ jfCall' = Some([op |-> "_base", probe |-> lanUp, prev |-> PrevProbe,
                              base |-> b.url, raised |-> FALSE])
    /\ UNCHANGED lanUp

\* JellyfinClient._get: the url is built on _base(), then the GET may fail
JfGet(path, outcome) ==
    /\ LET b == Base(jellyfin, lanUp)
       IN  /\ jellyfin' = b.self
           /\ jfCall' = Some([op |-> "_get", probe |-> lanUp, prev |-> PrevProbe,
                              base |-> b.url, path |-> path,
                              raised |-> outcome # "ok"])
    /\ UNCHANGED lanUp

\* JellyfinClient.stream_url
JfStreamUrl(item_id) ==
    /\ LET b == Base(jellyfin, lanUp)
       IN  /\ jellyfin' = b.self
           /\ jfCall' = Some([op |-> "stream_url", probe |-> lanUp, prev |-> PrevProbe,
                              base |-> b.url, path |-> <<"Videos", item_id, "stream">>,
                              api_key |-> jellyfin.api_key, raised |-> FALSE])
    /\ UNCHANGED lanUp

\* JellyfinClient.play_item: the POST raises only when no response arrives
JfPlayItem(session_id, item_id, outcome) ==
    /\ LET b == Base(jellyfin, lanUp)
       IN  /\ jellyfin' = b.self
           /\ jfCall' = Some([op |-> "play_item", probe |-> lanUp, prev |-> PrevProbe,
                              base |-> b.url,
                              path |-> <<"Sessions", session_id, "Playing">>,
                              raised |-> outcome = "timeout"])
    /\ UNCHANGED lanUp

\* the network changes between calls (e.g. leaving home)
LanChange ==
    /\ lanUp' = ~lanUp
    /\ UNCHANGED <<jellyfin, jfCall>>

InitJf ==
    /\ StoreIdle
    /\ ConcIdle
    /\ RecoIdle
    /\ LinkIdle
    /\ HomeIdle
    /\ DetailIdle
    /\ ReqIdle
    /\ \E lan \in Addresses, wan \in Addresses :
           jellyfin = JellyfinClient(lan, wan, "key", "user")
    /\ lanUp \in BOOLEAN
    /\ jfCall = None

NextJf ==
    \/ JfBase /\ UNCHANGED outsideJf
    \/ \E path \in {"/Sessions", "/Items"}, outcome \in Outcomes :
           JfGet(path, outcome) /\ UNCHANGED outsideJf
    \/ \E item_id \in ItemIds :
           JfStreamUrl(item_id) /\ UNCHANGED outsideJf
    \/ \E session_id \in SessionIds, item_id \in ItemIds, outcome \in Outcomes :
           JfPlayItem(session_id, item_id, outcome)
               /\ UNCHANGED outsideJf
    \/ LanChange /\ UNCHANGED outsideJf

SpecJf == InitJf /\ [][NextJf]_vars

\* C7: every call of _base, alone or inside _get, stream_url and play_item,
\* uses the LAN address when the probe of that very call succeeded and the
\* WAN address when it failed, whatever earlier probes gave, and no call
\* changes the client object.
C7_EndpointChosenPerCall ==
    /\ [](jfCall # None =>
              jfCall[1].base = IF jfCall[1].probe THEN jellyfin.lan_url
                               ELSE jellyfin.wan_url)
    /\ [][jellyfin' = jellyfin]_vars

\* a call whose probe succeeded right after a call whose probe failed, on a
\* client whose two addresses differ
C7_Witness ==
    /\ jfCall # None
    /\ jfCall[1].op \in {"_get", "stream_url", "play_item"}
    /\ jfCall[1].probe
    /\ jfCall[1].prev = Some(FALSE)
    /\ jellyfin.lan_url # jellyfin.wan_url
    /\ jfCall[1].base = jellyfin.lan_url

(***************************************************************************)
(* app/services/provider.py: resolve_provider_link.  A string is the       *)
(* sequence of its characters.                                             *)
(***************************************************************************)
\* the latest release year
MaxYear == 2010

Titles ==
    {<<"U", "p">>,
     <<"M", "r", " ", "&", " ", "M", "r", "s">>,
     <<"A", "m", "é", "l", "i", "e">>}
Years == {None, Some(0), Some(7), Some(MaxYear)}
Providers == {"netflix", "max", "discovery", "youtube", "youtube_tv", "hulu", "Netflix", ""}
ApiKeys == {None, Some(""), Some("KEY")}

VideoId1 == <<"d", "Q", "w">>
VideoId2 == <<"x", "9">>
\* a search result: {"id": {"videoId": ...}}, or one without the videoId
Video(id) == [videoId |-> id]
\* what a request to the video-search endpoint comes to
SearchResponses ==
    {[outcome |-> o, items |-> <<>>] : o \in Outcomes}
        \cup {[outcome |-> "ok", items |-> items] :
                  items \in {<<Video(Some(VideoId1))>>,
                             <<Video(Some(VideoId2)), Video(Some(VideoId1))>>,
                             <<Video(None), Video(Some(VideoId1))>>}}

Digit(d) == CASE d = 0 -> "0" [] d = 1 -> "1" [] d = 2 -> "2" [] d = 3 -> "3"
              [] d = 4 -> "4" [] d = 5 -> "5" [] d = 6 -> "6" [] d = 7 -> "7"
              [] d = 8 -> "8" [] d = 9 -> "9"

\* str(n) of a natural number
RECURSIVE Str(_)
Str(n) == IF n < 10 THEN <<Digit(n)>> ELSE Str(n \div 10) \o <<Digit(n % 10)>>

\* the characters urllib.parse.quote_plus never quotes
AlwaysSafe ==
    {"A", "M", "N", "U", "O", "Q", "a", "d", "e", "f", "i", "l", "m", "n", "o", "p",
     "r", "s", "u", "v", "w", "x", "0", "1", "2", "3", "4", "5", "6", "7", "8", "9",
     "_", ".", "-", "~"}

\* %XX of the character's UTF-8 bytes
PercentEncoded(c) ==
    CASE c = "&" -> <<"%", "2", "6">>
      [] c = "(" -> <<"%", "2", "8">>
      [] c = ")" -> <<"%", "2", "9">>
      [] c = "é" -> <<"%", "C", "3", "%", "A", "9">>

\* urllib.parse.quote_plus
RECURSIVE quote_plus(_)
quote_plus(str) ==
    IF str = <<>> THEN <<>>
    ELSE LET c == Head(str)
         IN  (IF c \in AlwaysSafe THEN <<c>>
              ELSE IF c = " " THEN <<"+">>
              ELSE PercentEncoded(c)) \o quote_plus(Tail(str))

FullMovie == <<" ", "f", "u", "l", "l", " ", "m", "o", "v", "i", "e">>

\* provider.py:38-40: f"{title} ({year})" when year is truthy
Normalized(title, year) ==
    IF year # None /\ year[1] # 0
    THEN title \o <<" ", "(">> \o Str(year[1]) \o <<")">>
    ELSE title

Url(prefix, rest) == [prefix |-> prefix, rest |-> rest]
Returned(value) == [raised |-> FALSE, value |-> value]
Raised == [raised |-> TRUE, value |-> None]

\* the body of _find_youtube_video_id's try block (provider.py:93-99)
SearchVideos(resp) ==
    IF resp.outcome # "ok" THEN Raised
    ELSE IF resp.items = <<>> THEN Returned(None)
    ELSE IF resp.items[1].videoId = None THEN Raised
    ELSE Returned(resp.items[1].videoId)

\* the search without its except clause
FindVideoIdNoExcept(resp) == SearchVideos(resp)

\* _find_youtube_video_id: any exception gives None (provider.py:100-101)
FindVideoId(resp) ==
    IF SearchVideos(resp).raised THEN Returned(None) ELSE SearchVideos(resp)

\* a search is made whatever the key
KeyNotChecked(api_key) == TRUE

\* provider.py:60-61: api_key = os.environ.get(...); if api_key:
HasCredential(api_key) == Truthy(api_key)

\* the queries resolve_provider_link sends to the video-search endpoint
SearchesOf(title, year, provider, api_key) ==
    IF provider = "youtube" /\ HasCredential(api_key)
    THEN <<Normalized(title, year)>>
    ELSE <<>>

\* resolve_provider_link (provider.py:28-74)
resolve_provider_link(title, year, provider, api_key, resp) ==
    LET normalized == Normalized(title, year)
    IN  CASE provider = "netflix" ->
                 Returned(Url("https://www.netflix.com/search?q=", quote_plus(normalized)))
          [] provider = "max" ->
                 Returned(Url("https://play.max.com/search?q=", quote_plus(normalized)))
          [] provider = "discovery" ->
                 Returned(Url("https://discoveryplus.com/search?q=", quote_plus(normalized)))
          [] provider = "youtube" ->
                 LET found == IF HasCredential(api_key) THEN FindVideoId(resp)
                              ELSE Returned(None)
                 IN  IF found.raised THEN Raised
                     ELSE IF found.value # None /\ found.value[1] # <<>>
                     THEN Returned(Url("https://www.youtube.com/watch?v=", found.value[1]))
                     ELSE Returned(Url("https://www.youtube.com/results?search_query=",
                                       quote_plus(normalized \o FullMovie)))
          [] provider = "youtube_tv" ->
                 Returned(Url("https://tv.youtube.com/search?q=", quote_plus(normalized)))
          [] OTHER ->
                 Returned(Url("https://www.google.com/search?q=", quote_plus(normalized)))

\* one call of resolve_provider_link
Resolve ==
    /\ linkResult = None
    /\ LET a == linkArgs[1]
       IN  /\ linkResult' = Some(resolve_provider_link(a.title, a.year, a.provider,
                                                       ytKey, ytResponse))
           /\ searchLog' = searchLog \o SearchesOf(a.title, a.year, a.provider, ytKey)
    /\ UNCHANGED <<ytKey, ytResponse, linkArgs>>

InitLink ==
    /\ StoreIdle
    /\ ConcIdle
    /\ RecoIdle
    /\ JfIdle
    /\ ytKey \in ApiKeys
    /\ ytResponse \in SearchResponses
    /\ \E title \in Titles, year \in Years, provider \in Providers :
           linkArgs = Some([title |-> title, year |-> year, provider |-> provider])
    /\ linkResult = None
    /\ searchLog = <<>>
    /\ HomeIdle
    /\ DetailIdle
    /\ ReqIdle

NextLink == Resolve /\ UNCHANGED outsideLink

SpecLink == InitLink /\ [][NextLink]_vars

KnownSearchPrefix ==
    [netflix |-> "https://www.netflix.com/search?q=",
     max |-> "https://play.max.com/search?q=",
     discovery |-> "https://discoveryplus.com/search?q=",
     youtube_tv |-> "https://tv.youtube.com/search?q="]

\* C8: resolve_provider_link never raises and always returns a URL, whatever
\* the provider name, the credential and the outcome of the video search; a
\* provider name outside {netflix, max, discovery, youtube, youtube_tv} gives
\* the generic web search for the normalized title, and netflix, max,
\* discovery and youtube_tv each give their own search host.
C8_AlwaysAUrl ==
    linkResult # None =>
        LET a == linkArgs[1]
            r == linkResult[1]
            query == quote_plus(Normalized(a.title, a.year))
        IN  /\ ~r.raised
            /\ r.value.prefix \in
                   {"https://www.netflix.com/search?q=", "https://play.max.com/search?q=",
                    "https://discoveryplus.com/search?q=", "https://tv.youtube.com/search?q=",
                    "https://www.youtube.com/watch?v=",
                    "https://www.youtube.com/results?search_query=",
                    "https://www.google.com/search?q="}
            /\ r.value.rest # <<>>
            /\ a.provider \in DOMAIN KnownSearchPrefix =>
                   r.value = Url(KnownSearchPrefix[a.provider], query)
            /\ a.provider \notin (DOMAIN KnownSearchPrefix \cup {"youtube"}) =>
                   r.value = Url("https://www.google.com/search?q=", query)

\* a youtube link was resolved with a credential set while the search failed
C8_Witness ==
    /\ linkResult # None
    /\ linkArgs[1].provider = "youtube"
    /\ HasCredential(ytKey)
    /\ ytResponse.outcome = "timeout"
    /\ linkArgs[1].year = Some(MaxYear)

\* the search came back with a first result that carries a videoId
SearchSucceeded ==
    /\ ytResponse.outcome = "ok"
    /\ ytResponse.items # <<>>
    /\ ytResponse.items[1].videoId # None

\* C9: for provider "youtube" the result is the watch URL of the first search
\* result exactly when a credential is configured and the search succeeded
\* with at least one result, and the search URL of the normalized title plus
\* " full movie" in every other case; no search request is made without a
\* credential or for another provider.
C9_WatchUrlIffSearchHit ==
    linkResult # None =>
        LET a == linkArgs[1]
            r == linkResult[1]
        IN  /\ a.provider = "youtube" =>
                   /\ ~r.raised
                   /\ r.value =
                          IF Truthy(ytKey) /\ SearchSucceeded
                          THEN Url("https://www.youtube.com/watch?v=",
                                   ytResponse.items[1].videoId[1])
                          ELSE Url("https://www.youtube.com/results?search_query=",
                                   quote_plus(Normalized(a.title, a.year) \o FullMovie))
            /\ (a.provider # "youtube" \/ ~Truthy(ytKey)) => searchLog = <<>>
            /\ (a.provider = "youtube" /\ Truthy(ytKey)) => Len(searchLog) = 1

\* a watch URL was returned for the first of two results
C9_Witness ==
    /\ linkResult # None
    /\ linkArgs[1].provider = "youtube"
    /\ Len(searchLog) = 1
    /\ Len(ytResponse.items) = 2
    /\ linkResult[1].value = Url("https://www.youtube.com/watch?v=", VideoId2)

(***************************************************************************)
(* app/main.py: the home route, with the client calls behind its rows      *)
(***************************************************************************)
\* limit=12 of the home rows
HomeLimit == 12

\* the Jellyfin item lists and the TMDB trending lists the upstreams hold
JellyfinLists == SeqsUpTo(ItemIds, 1)
HomeItems == {Item(Some(1), Some("movie"), None), Item(Some(2), None, Some("Show")),
              Item(None, Some("tv"), Some("Show"))}
HomeTrending == SeqsUpTo(HomeItems, 2)
RowLists == {<<>>, <<Item(Some(1), Some("movie"), None)>>}

\* a failed request, or a JSON body: an object wrapping the list or the bare list
Failure(outcome) == [outcome |-> outcome, shape |-> "none", list |-> <<>>]
Body(shape, list) == [outcome |-> "ok", shape |-> shape, list |-> list]

\* JellyfinClient.get_continue_watching: data.get("Items", data)
get_continue_watching(resp) ==
    IF resp.outcome # "ok" THEN Raised
    ELSE IF resp.shape = "list" THEN Raised
    ELSE Returned(resp.list)

\* JellyfinClient.get_recently_added: the body as it came
get_recently_added(resp) ==
    IF resp.outcome # "ok" THEN Raised ELSE Returned(resp.list)

\* TMDBClient.get_trending: data.get("results", [])[:limit]
get_trending(resp, lim) ==
    IF resp.outcome # "ok" THEN Raised ELSE Returned(Take(resp.list, lim))

\* the call without a try around it
NoTry(result) == result

\* try: row = call() / except Exception: row = []
TryRow(result) == IF result.raised THEN Returned(<<>>) ELSE result

\* one row of home: the local is assigned and the route goes on, or the
\* exception leaves the route
HomeRow(name, result, next) ==
    /\ upstream' = upstream @@ (name :> result)
    /\ IF TryRow(result).raised
       THEN /\ hpc' = "error"
            /\ response' = Some([kind |-> "error"])
            /\ UNCHANGED rows
       ELSE /\ hpc' = next
            /\ rows' = rows @@ (name :> TryRow(result).value)
            /\ UNCHANGED response

\* main.py:49-52
HomeContinueWatching ==
    /\ hpc = "continue_watching"
    /\ \E resp \in {Failure(o) : o \in Outcomes \ {"ok"}}
                      \cup {Body(sh, l) : sh \in {"object", "list"}, l \in JellyfinLists} :
           HomeRow("continue_watching", get_continue_watching(resp), "recently_added")
    /\ UNCHANGED recoVars

\* main.py:53-56
HomeRecentlyAdded ==
    /\ hpc = "recently_added"
    /\ \E resp \in {Failure(o) : o \in Outcomes \ {"ok"}}
                      \cup {Body("list", l) : l \in JellyfinLists} :
           HomeRow("recently_added", get_recently_added(resp), "recommended_call")
    /\ UNCHANGED recoVars

\* main.py:59: reco.recommend_download(limit=12) is entered
HomeRecommendCall ==
    /\ hpc = "recommended_call"
    /\ hpc' = "recommended_download"
    /\ rpc' = "fetch"
    /\ limit' = HomeLimit
    /\ trending' \in HomeTrending
    /\ UNCHANGED <<library, candidates, idx, suggestions, checks, rows, upstream, response>>

\* main.py:58-61: recommend_download runs while the route waits for it
HomeRecommendRun ==
    /\ hpc = "recommended_download"
    /\ RecoFetch \/ RecoStep \/ RecoReturn
    /\ UNCHANGED homeVars

\* main.py:58-61: recommend_download has returned or raised
HomeRecommended ==
    /\ hpc = "recommended_download"
    /\ rpc \in {"done", "raised"}
    /\ HomeRow("recommended_download",
               IF rpc = "raised" THEN Raised ELSE Returned(suggestions), "trending")
    /\ UNCHANGED recoVars

\* main.py:62-65
HomeTrendingRow ==
    /\ hpc = "trending"
    /\ \E resp \in {Failure(o) : o \in Outcomes \ {"ok"}}
                      \cup {Body("object", l) : l \in RowLists} :
           HomeRow("trending", get_trending(resp, HomeLimit), "stream_picks")
    /\ UNCHANGED recoVars

\* main.py:66-69: get_streaming_highlights is get_trending (tmdb.py:54-56)
HomeStreamPicks ==
    /\ hpc = "stream_picks"
    /\ \E resp \in {Failure(o) : o \in Outcomes \ {"ok"}}
                      \cup {Body("object", l) : l \in RowLists} :
           HomeRow("stream_picks", get_trending(resp, HomeLimit), "render")
    /\ UNCHANGED recoVars

\* main.py:71-84: the rows are put together and the page is rendered
HomeRender ==
    /\ hpc = "render"
    /\ \E probe_ok \in BOOLEAN :
           response' = Some([kind |-> "page", rows |-> rows,
                             jellyfin_url |-> Base(jellyfin, probe_ok).url])
    /\ hpc' = "responded"
    /\ UNCHANGED <<rows, upstream, recoVars>>

\* a request for the home page arrives
InitHome ==
    /\ StoreIdle
    /\ ConcIdle
    /\ JfIdle
    /\ LinkIdle
    /\ trending = <<>>
    /\ library \in SUBSET (1 .. MaxId)
    /\ limit = 0
    /\ rpc = "idle"
    /\ candidates = <<>>
    /\ idx = 0
    /\ suggestions = <<>>
    /\ checks = <<>>
    /\ hpc = "continue_watching"
    /\ rows = <<>>
    /\ upstream = <<>>
    /\ response = None
    /\ DetailIdle
    /\ ReqIdle

NextHome ==
    \/ HomeContinueWatching /\ UNCHANGED outsideHome
    \/ HomeRecentlyAdded /\ UNCHANGED outsideHome
    \/ HomeRecommendCall /\ UNCHANGED outsideHome
    \/ HomeRecommendRun /\ UNCHANGED outsideHome
    \/ HomeRecommended /\ UNCHANGED outsideHome
    \/ HomeTrendingRow /\ UNCHANGED outsideHome
    \/ HomeStreamPicks /\ UNCHANGED outsideHome
    \/ HomeRender /\ UNCHANGED outsideHome

SpecHome == InitHome /\ [][NextHome]_vars

RowNames ==
    {"continue_watching", "recently_added", "recommended_download", "trending",
     "stream_picks"}

\* C10: each of the five rows of home is the empty list when the upstream
\* call behind it raised and its own result when it did not, whatever the
\* other calls did (a membership check failing inside the recommendation
\* loop included), and home answers with a page, never with the error.
C10_RowsDegradeIndependently ==
    /\ hpc # "error"
    /\ \A name \in DOMAIN upstream :
           /\ name \in DOMAIN rows
           /\ rows[name] = IF upstream[name].raised THEN <<>> ELSE upstream[name].value
    /\ ("recommended_download" \in DOMAIN rows /\ rpc = "done") =>
           rows["recommended_download"] =
               Take(NotInLibrary(candidates, library), HomeLimit)
    /\ hpc = "responded" =>
           /\ DOMAIN rows = RowNames
           /\ response # None
           /\ response[1].kind = "page"
           /\ response[1].rows = rows

\* the page was served after a membership check raised part-way through the
\* recommendation loop and one other upstream call failed, with the
\* remaining rows holding items
C10_Witness ==
    /\ hpc = "responded"
    /\ rpc = "raised"
    /\ suggestions # <<>>
    /\ rows["recommended_download"] = <<>>
    /\ upstream["continue_watching"].raised
    /\ rows["recently_added"] # <<>>
    /\ rows["trending"] # <<>>
    /\ upstream["stream_picks"].raised

(***************************************************************************)
(* app/main.py: the title_detail route, with list_playback_devices         *)
(* (provider.py:104-125) and the client calls it makes                     *)
(***************************************************************************)
\* Python truthiness of an optional string given by its characters
TruthyText(opt) == opt # None /\ opt[1] # <<>>

IsDigit(c) == \E d \in 0 .. 9 : Digit(d) = c
DigitValue(c) == CHOOSE d \in 0 .. 9 : Digit(d) = c

RECURSIVE IntOf(_)
IntOf(str) ==
    IF Len(str) = 1 THEN DigitValue(str[1])
    ELSE IntOf(SubSeq(str, 1, Len(str) - 1)) * 10 + DigitValue(str[Len(str)])

\* int(str) of a string of digits and letters: ValueError unless all are digits
ParseInt(str) ==
    IF str # <<>> /\ \A i \in 1 .. Len(str) : IsDigit(str[i])
    THEN Returned(IntOf(str))
    ELSE Raised

\* str.split("-")[0]
RECURSIVE BeforeDash(_)
BeforeDash(str) ==
    IF str = <<>> \/ Head(str) = "-" THEN <<>>
    ELSE <<Head(str)>> \o BeforeDash(Tail(str))

\* the requests: /title/{kind}/{item_id}?media_type=...
DetailKinds == {"jellyfin", "tmdb", "movie"}
DetailItemIds == {<<"4", "2">>, <<"a", "b">>}
DetailMediaTypes == {None, Some("movie"), Some("tv")}

\* what TMDB answers for a title: with and without title, name and dates
TmdbTitle(title, name, release_date, first_air_date) ==
    [title |-> title, name |-> name, release_date |-> release_date,
     first_air_date |-> first_air_date]
TmdbTitles ==
    {TmdbTitle(Some(<<"U", "p">>), None, Some(<<"2", "0", "0", "9", "-", "0", "5">>), None),
     TmdbTitle(None, Some(<<"U", "p">>), None, Some(<<"s", "o", "o", "n">>)),
     TmdbTitle(None, None, Some(<<"2", "0", "0", "9", "-", "0", "5">>), None),
     TmdbTitle(None, None, None, None)}

\* what Jellyfin lists under /Sessions
Session(id, device_name, device_id, client, device_type, remote) ==
    [Id |-> id, DeviceName |-> device_name, DeviceId |-> device_id, Client |-> client,
     DeviceType |-> device_type, SupportsRemoteControl |-> remote]
SessionLists ==
    {<<>>,
     <<Session(Some("s1"), Some("Apple TV"), Some("d1"), Some("Infuse"), None, Some(TRUE))>>,
     <<Session(Some("s1"), None, Some("d1"), None, Some("tv"), None),
       Session(None, None, None, None, None, Some(FALSE))>>}

\* provider.py:114-124: one session as a playback device
Device(s) ==
    [id |-> s.Id,
     device_name |-> IF Truthy(s.DeviceName) THEN s.DeviceName[1]
                     ELSE IF Truthy(s.DeviceId) THEN s.DeviceId[1] ELSE "Unknown",
     client |-> IF Truthy(s.Client) THEN s.Client[1]
                ELSE IF Truthy(s.DeviceType) THEN s.DeviceType[1] ELSE "",
     controllable |-> s.SupportsRemoteControl = Some(TRUE)]

\* list_playback_devices: jellyfin.list_sessions() is called with no try around it
list_playback_devices(resp) ==
    IF resp.outcome # "ok" THEN Raised
    ELSE Returned([i \in 1 .. Len(resp.list) |-> Device(resp.list[i])])

\* JellyfinClient.get_item: the JSON body as it came
get_item(resp) == IF resp.outcome # "ok" THEN Raised ELSE Returned(resp.list)

\* TMDBClient.get_details: the JSON body as it came
get_details(resp) == IF resp.outcome # "ok" THEN Raised ELSE Returned(resp.list)

\* main.py:123-129: the year of release_date or first_air_date, None when
\* there is none or it does not parse
YearOf(item) ==
    LET year == IF TruthyText(item.release_date) THEN item.release_date
                ELSE item.first_air_date
    IN  IF ~TruthyText(year) THEN None
        ELSE IF ParseInt(BeforeDash(year[1])).raised THEN None
        ELSE Some(ParseInt(BeforeDash(year[1])).value)

ProviderNames == {"netflix", "max", "discovery", "youtube", "youtube_tv"}

\* main.py:130-139: the provider links of item.get("title") or item.get("name");
\* with neither, title is None: f"{title} ({year})" reads "None (...)" and
\* without a year quote_plus(None) raises TypeError at the first provider
ProviderLinks(item, api_key, resp) ==
    LET title == IF TruthyText(item.title) THEN item.title
                 ELSE IF TruthyText(item.name) THEN item.name ELSE None
        year == YearOf(item)
        text == IF title = None THEN <<"N", "o", "n", "e">> ELSE title[1]
    IN  IF title = None /\ (year = None \/ year[1] = 0) THEN Raised
        ELSE Returned([name \in ProviderNames |->
                          resolve_provider_link(text, year, name, api_key, resp).value])

\* the route answers: the page, HTTPException(404), or the unhandled exception
Page(context) == [kind |-> "page", context |-> context]
NotFound == [kind |-> "not_found", context |-> <<>>]
Unhandled == [kind |-> "error", context |-> <<>>]

DetailAnswer(answer) ==
    /\ dpc' = "responded"
    /\ detailResponse' = Some(answer)

\* main.py:90-94: item = jellyfin.get_item(item_id), 404 when it raises
DetailGetItem ==
    /\ dpc = "start"
    /\ detailArgs[1].kind = "jellyfin"
    /\ \E resp \in {Failure(o) : o \in Outcomes \ {"ok"}}
                      \cup {Body("object", [Id |-> detailArgs[1].item_id])} :
           IF get_item(resp).raised
           THEN /\ DetailAnswer(NotFound)
                /\ detailFailed' = detailFailed \cup {"get_item"}
                /\ UNCHANGED detailLocals
           ELSE /\ dpc' = "devices"
                /\ detailLocals' = detailLocals @@ ("item" :> get_item(resp).value)
                /\ UNCHANGED <<detailFailed, detailResponse>>
    /\ UNCHANGED <<detailArgs, linkVars>>

\* main.py:96: devices = provider.list_playback_devices(jellyfin)
DetailDevices ==
    /\ dpc = "devices"
    /\ \E resp \in {Failure(o) : o \in Outcomes \ {"ok"}}
                      \cup {Body("list", l) : l \in SessionLists} :
           IF list_playback_devices(resp).raised
           THEN /\ DetailAnswer(Unhandled)
                /\ detailFailed' = detailFailed \cup {"list_sessions"}
                /\ UNCHANGED detailLocals
           ELSE /\ dpc' = "jellyfin_page"
                /\ detailLocals' =
                       detailLocals @@ ("devices" :> list_playback_devices(resp).value)
                /\ UNCHANGED <<detailFailed, detailResponse>>
    /\ UNCHANGED <<detailArgs, linkVars>>

\* main.py:97-107: play_url, rating and the page
DetailJellyfinPage ==
    /\ dpc = "jellyfin_page"
    /\ \E probe_ok \in BOOLEAN :
           DetailAnswer(Page(
               [kind |-> "jellyfin",
                item |-> detailLocals["item"],
                devices |-> detailLocals["devices"],
                play_url |-> [base |-> Base(jellyfin, probe_ok).url,
                              path |-> <<"Videos", detailArgs[1].item_id, "stream">>,
                              api_key |-> jellyfin.api_key],
                rating |-> SelectStars(ratings, "jellyfin", detailArgs[1].item_id)]))
    /\ UNCHANGED <<detailArgs, detailLocals, detailFailed, linkVars>>

\* main.py:110-117: media_type, tmdb_id = int(item_id) and
\* item = tmdb.get_details(...), 404 when the call raises
DetailGetDetails ==
    /\ dpc = "start"
    /\ detailArgs[1].kind # "jellyfin"
    /\ LET media_type == IF detailArgs[1].media_type = None THEN "movie"
                         ELSE detailArgs[1].media_type[1]
           tmdb_id == ParseInt(detailArgs[1].item_id)
       IN  IF tmdb_id.raised
           THEN /\ DetailAnswer(Unhandled)
                /\ UNCHANGED <<detailLocals, detailFailed>>
           ELSE \E resp \in {Failure(o) : o \in Outcomes \ {"ok"}}
                               \cup {Body("object", t) : t \in TmdbTitles} :
                    IF get_details(resp).raised
                    THEN /\ DetailAnswer(NotFound)
                         /\ detailFailed' = detailFailed \cup {"get_details"}
                         /\ UNCHANGED detailLocals
                    ELSE /\ dpc' = "in_library"
                         /\ detailLocals' =
                                detailLocals @@ ("media_type" :> media_type)
                                    @@ ("tmdb_id" :> tmdb_id.value)
                                    @@ ("item" :> get_details(resp).value)
                         /\ UNCHANGED <<detailFailed, detailResponse>>
    /\ UNCHANGED <<detailArgs, linkVars>>

\* main.py:119: in_library = jellyfin.is_in_library(...), with no try around it
DetailInLibrary ==
    /\ dpc = "in_library"
    /\ \/ \E lib \in {{}, {detailLocals["tmdb_id"]}} :
              /\ detailLocals' =
                     detailLocals @@
                         ("in_library" :> is_in_library(lib, detailLocals["tmdb_id"],
                                                        detailLocals["media_type"]))
              /\ dpc' = "tmdb_page"
              /\ UNCHANGED <<detailFailed, detailResponse>>
       \/ \* jellyfin._get raises inside is_in_library
          /\ DetailAnswer(Unhandled)
          /\ detailFailed' = detailFailed \cup {"is_in_library"}
          /\ UNCHANGED detailLocals
    /\ UNCHANGED <<detailArgs, linkVars>>

\* main.py:120-151: the year, the provider links, the rating and the page
DetailTmdbPage ==
    /\ dpc = "tmdb_page"
    /\ LET item == detailLocals["item"]
           links == ProviderLinks(item, ytKey, ytResponse)
       IN  /\ IF links.raised
              THEN /\ DetailAnswer(Unhandled)
                   /\ detailFailed' = detailFailed \cup {"get_details"}
              ELSE /\ DetailAnswer(Page(
                          [kind |-> "tmdb",
                           item |-> item,
                           media_type |-> detailLocals["media_type"],
                           in_library |-> detailLocals["in_library"],
                           provider_links |-> links.value,
                           rating |-> SelectStars(ratings, "tmdb",
                                                  <<detailLocals["media_type"],
                                                    detailLocals["tmdb_id"]>>)]))
                   /\ UNCHANGED detailFailed
           /\ searchLog' = searchLog \o SearchesOf(
                  IF TruthyText(item.title) THEN item.title[1]
                  ELSE IF TruthyText(item.name) THEN item.name[1]
                  ELSE <<"N", "o", "n", "e">>,
                  YearOf(item), "youtube",
                  IF links.raised THEN None ELSE ytKey)
    /\ UNCHANGED <<detailArgs, detailLocals, ytKey, ytResponse, linkArgs, linkResult>>

\* a request for a title page arrives
InitDetail ==
    /\ StoreIdle
    /\ ConcIdle
    /\ RecoIdle
    /\ JfIdle
    /\ HomeIdle
    /\ ReqIdle
    /\ ytKey \in {None, Some("KEY")}
    /\ ytResponse \in {[outcome |-> "timeout", items |-> <<>>],
                       [outcome |-> "ok", items |-> <<Video(Some(VideoId1))>>]}
    /\ linkArgs = None
    /\ linkResult = None
    /\ searchLog = <<>>
    /\ dpc = "start"
    /\ \E kind \in DetailKinds, item_id \in DetailItemIds, media_type \in DetailMediaTypes :
           detailArgs = Some([kind |-> kind, item_id |-> item_id,
                              media_type |-> media_type])
    /\ detailLocals = <<>>
    /\ detailFailed = {}
    /\ detailResponse = None

NextDetail ==
    \/ DetailGetItem /\ UNCHANGED outsideDetail
    \/ DetailDevices /\ UNCHANGED outsideDetail
    \/ DetailJellyfinPage /\ UNCHANGED outsideDetail
    \/ DetailGetDetails /\ UNCHANGED outsideDetail
    \/ DetailInLibrary /\ UNCHANGED outsideDetail
    \/ DetailTmdbPage /\ UNCHANGED outsideDetail

SpecDetail == InitDetail /\ [][NextDetail]_vars

\* C11: title_detail, for the jellyfin kind and for the tmdb kind, answers
\* "not found" whenever an upstream call of the request failed (the item
\* fetch, the session listing, the library-membership check): no upstream
\* failure leaves the route as an unhandled error, and none is passed over.
C11_UpstreamFailureIsNotFound ==
    (dpc = "responded" /\ detailFailed # {}) => detailResponse[1].kind = "not_found"

(***************************************************************************)
(* app/services/jellyseerr.py: JellyseerrClient.request, and the /request  *)
(* route of app/main.py that returns its result                            *)
(***************************************************************************)
RequestMediaTypes == {"movie", "tv"}
RequestIds == 1 .. MaxId
UserIds == {None, Some(""), Some("7")}

\* what requests.post meets: no answer in time, or a response with its
\* status code and its body, which parses as JSON or does not
ErrorStatuses == {401, 404, 500}
OkStatuses == {200, 201}
Bodies == {[json |-> TRUE, text |-> "{id}"], [json |-> FALSE, text |-> "<html>"],
           [json |-> FALSE, text |-> ""]}
PostResponses ==
    {[outcome |-> "timeout", status_code |-> 0, body |-> [json |-> FALSE, text |-> ""]]}
        \cup {[outcome |-> "response", status_code |-> c, body |-> b] :
                  c \in ErrorStatuses \cup OkStatuses, b \in Bodies}

\* jellyseerr.py:41-44: the payload, with userId only for a truthy user_id
Payload(self, media_type, tmdb_id) ==
    IF self.user_id # None /\ self.user_id[1] # ""
    THEN [mediaType |-> media_type, mediaId |-> tmdb_id, userId |-> self.user_id[1]]
    ELSE [mediaType |-> media_type, mediaId |-> tmdb_id]

\* Response.ok: the status is below 400
ResponseOk(resp) == resp.status_code < 400

\* JellyseerrClient.request: requests.post and resp.json() may raise, and
\* nothing catches what they raise
request(self, media_type, tmdb_id, resp) ==
    IF resp.outcome = "timeout" THEN Raised
    ELSE IF ResponseOk(resp)
         THEN IF resp.body.json
              THEN Returned([ok |-> TRUE, data |-> resp.body.text])
              ELSE Raised
         ELSE Returned([ok |-> FALSE, status |-> resp.status_code,
                        error |-> resp.body.text])

\* the upstream did not do what was asked: it was unreachable or timed out,
\* answered with an error status, or answered with a body that is not JSON
UpstreamFailed(resp) ==
    \/ resp.outcome = "timeout"
    \/ ~ResponseOk(resp)
    \/ ~resp.body.json

\* main.py:162-166: request_item returns what jellyseerr.request returns
RequestItem ==
    /\ reqArgs # None
    /\ reqResult = None
    /\ \E resp \in PostResponses :
           /\ reqUpstream' = Some([sent |-> Payload(jellyseerr, reqArgs[1].media_type,
                                                     reqArgs[1].tmdb_id),
                                   resp |-> resp])
           /\ reqResult' = Some(request(jellyseerr, reqArgs[1].media_type,
                                        reqArgs[1].tmdb_id, resp))
    /\ UNCHANGED <<jellyseerr, reqArgs>>

\* POST /request arrives; the client is the one from_env built
InitReq ==
    /\ StoreIdle
    /\ ConcIdle
    /\ RecoIdle
    /\ JfIdle
    /\ LinkIdle
    /\ HomeIdle
    /\ DetailIdle
    /\ \E user_id \in UserIds :
           jellyseerr = JellyseerrClient("http://localhost:5055", "", user_id)
    /\ \E media_type \in RequestMediaTypes, tmdb_id \in RequestIds :
           reqArgs = Some([media_type |-> media_type, tmdb_id |-> tmdb_id])
    /\ reqUpstream = None
    /\ reqResult = None

NextReq ==
    RequestItem /\ UNCHANGED outsideReq

SpecReq == InitReq /\ [][NextReq]_vars

\* C12: whenever the upstream fails (error status, unreachable or timed
\* out, malformed response body), JellyseerrClient.request and the /request
\* route hand the caller a structured outcome with ok = false: never a
\* raised exception, never ok = true.
C12_FailureIsStructuredOutcome ==
    (reqResult # None /\ UpstreamFailed(reqUpstream[1].resp)) =>
        /\ ~reqResult[1].raised
        /\ ~reqResult[1].value.ok

====
